---- MODULE Spec2Model ----
(***************************************************************************)
(* Model of gi.TabView (tabview.go): a tab strip ("tabs" Frame holding     *)
(* TabButtons, optionally followed by a trailing "new-tab" Action) and a   *)
(* stacked content Frame ("frame") whose StackTop is the visible index.    *)
(* Every method of TabView that changes or reads this state is an         *)
(* operator on a record t: the container state [tabs, kids, StackTop,      *)
(* NewTabButton] and the effects of the running call (signals emitted,     *)
(* update bracket, re-render requests, widgets destroyed).  The actions    *)
(* apply one public method or event handler each to the current state.    *)
(***************************************************************************)
EXTENDS Integers, Sequences, FiniteSets

\* ---------------------------------------------------------------- bounds
\* largest number of tabs the model lets the container hold
MaxTabs == 3

\* tab labels handed to the insert operations
Labels == {"a"}

\* tab labels handed to AddTab where the lookups by name are exercised
AddLabels == {"a", "b"}

\* labels handed to the lookups by name
LookupNames == {"a", "b", "new-tab"}

\* the nil widget / nil return value
Nil == 0

\* identities of content widgets (one per live tab suffices)
WidgetIds == 1..MaxTabs

\* indices handed to the index-taking operations: in range and out of range
IdxArgs == -1..MaxTabs

VARIABLES
    tabs,          \* tv.Tabs().Kids: the strip, TabButtons then maybe "new-tab"
    kids,          \* tv.Frame().Kids: the content stack
    StackTop,      \* tv.Frame().StackTop: visible-content index
    NewTabButton,  \* tv.NewTabButton flag
    last           \* the last call: method, arguments, results, effects

vars == <<tabs, kids, StackTop, NewTabButton, last>>

\* ------------------------------------------------------- sequence helpers
\* ki.Slice insert at 0-based position i
InsertAt(s, e, i) == SubSeq(s, 1, i) \o <<e>> \o SubSeq(s, i + 1, Len(s))

\* ki.Slice delete at 0-based position i
DeleteAt(s, i) == SubSeq(s, 1, i) \o SubSeq(s, i + 2, Len(s))

\* ------------------------------------------------------------ widgets
\* a TabButton as InsertTabOnlyAt creates it; wid is the content widget it
\* was created for
NewTabButtonWidget(label, idx, wid) ==
    [typ |-> "TabButton", Nm |-> label, Data |-> idx, sel |-> FALSE, wid |-> wid]

\* the trailing "+" Action that ConfigNewTabButton creates
NewTabAction ==
    [typ |-> "Action", Nm |-> "new-tab", Data |-> -1, sel |-> FALSE, wid |-> Nil]

\* a content widget: identity and the invisible flag set by SetInvisibleTree
NewContent(wid) == [wid |-> wid, invis |-> FALSE]

\* the receiver as a call from the event loop finds it: the TabView's two
\* child frames and its flag, no signal emitted, no update bracket open
TV == [tabs |-> tabs, kids |-> kids, StackTop |-> StackTop,
       NewTabButton |-> NewTabButton,
       sigs |-> <<>>, Updating |-> FALSE, depth |-> 0, renders |-> 0,
       full |-> "unset", unbr |-> FALSE, destroyed |-> {}]

\* ------------------------------------------------- update bracket, signals
\* UpdateStart: the token is true when the node was not already updating
UpdateStart(t) ==
    [tv |-> [t EXCEPT !.Updating = TRUE, !.depth = t.depth + 1],
     updt |-> ~t.Updating]

\* UpdateEnd consumes the token: only the bracket that got a true token ends
\* the update and requests the re-render
UpdateEnd(t, updt) ==
    IF updt
    THEN [t EXCEPT !.Updating = FALSE, !.depth = t.depth - 1,
                   !.renders = t.renders + 1]
    ELSE [t EXCEPT !.depth = t.depth - 1]

\* SetFullReRender, with whether an update bracket was open when it was set
SetFullReRender(t) ==
    [t EXCEPT !.full = IF t.depth > 0 THEN "inside" ELSE "outside"]

\* a change of strip, stack, index tag, selected flag or StackTop: noted
\* when it is made with no update bracket open
Touch(t) == IF t.depth > 0 THEN t ELSE [t EXCEPT !.unbr = TRUE]

\* TabViewSig.Emit(tv.This, sig, data)
Emit(t, sig, data) ==
    [t EXCEPT !.sigs = Append(t.sigs, [sig |-> sig, data |-> data])]

\* DeleteChildAtIndex(idx, destroy) on the frame (kind "widg") or on the
\* strip (kind "tab"): the child leaves the list and is destroyed on demand
DeleteChildAtIndex(t, kind, idx, destroy) ==
    LET t1 == IF kind = "widg"
              THEN [t EXCEPT !.kids = DeleteAt(t.kids, idx)]
              ELSE [t EXCEPT !.tabs = DeleteAt(t.tabs, idx)]
    IN  IF destroy
        THEN Touch([t1 EXCEPT !.destroyed = t.destroyed \cup {kind}])
        ELSE Touch(t1)

\* Children().IndexByName(label, 0): position of the first child so named
IndexByName(s, label) ==
    LET hits == {i \in DOMAIN s : s[i].Nm = label}
    IN  IF hits = {} THEN [idx |-> -1, ok |-> FALSE]
        ELSE [idx |-> (CHOOSE i \in hits : \A j \in hits : i <= j) - 1,
              ok |-> TRUE]

\* ------------------------------------------------------------ methods
\* NTabs returns number of tabs
NTabs(t) == Len(t.kids)

\* CurTab without the NTabs() == 0 test: trusts StackTop alone
CurTabNoEmptyTest(t) ==
    IF t.StackTop < 0 THEN [widg |-> Nil, idx |-> -1, ok |-> FALSE]
    ELSE [widg |-> IF t.StackTop < Len(t.kids)
                   THEN t.kids[t.StackTop + 1].wid ELSE Nil,
          idx |-> t.StackTop, ok |-> TRUE]

\* CurTab returns currently-selected tab and its index, false if none
CurTab(t) ==
    IF NTabs(t) = 0 THEN [widg |-> Nil, idx |-> -1, ok |-> FALSE]
    ELSE IF t.StackTop < 0 THEN [widg |-> Nil, idx |-> -1, ok |-> FALSE]
    ELSE [widg |-> IF t.StackTop < Len(t.kids)
                   THEN t.kids[t.StackTop + 1].wid ELSE Nil,
          idx |-> t.StackTop, ok |-> TRUE]

\* InsertTabOnlyAt that appends the button instead of inserting it at idx
InsertTabOnlyAtAppend(t, label, idx) ==
    LET wid   == t.kids[idx + 1].wid
        at    == Len(t.kids) - 1
        tabs1 == InsertAt(t.tabs, NewTabButtonWidget(label, idx, wid), at)
    IN  IF Len(t.kids) = 1
        THEN [t EXCEPT !.tabs = [tabs1 EXCEPT ![at + 1].sel = TRUE],
                       !.StackTop = 0]
        ELSE [t EXCEPT !.tabs = tabs1,
                       !.kids = [t.kids EXCEPT ![idx + 1].invis = TRUE]]

\* InsertTabOnlyAt that selects the new tab whenever the frame is non-empty
InsertTabOnlyAtAlwaysSelect(t, label, idx) ==
    LET wid   == t.kids[idx + 1].wid
        tabs1 == InsertAt(t.tabs, NewTabButtonWidget(label, idx, wid), idx)
    IN  IF Len(t.kids) >= 1
        THEN [t EXCEPT !.tabs = [tabs1 EXCEPT ![idx + 1].sel = TRUE],
                       !.StackTop = 0]
        ELSE [t EXCEPT !.tabs = tabs1,
                       !.kids = [t.kids EXCEPT ![idx + 1].invis = TRUE]]

\* InsertTabOnlyAt that forgets SetSelectedState(true) on the first tab
InsertTabOnlyAtNoSelect(t, label, idx) ==
    LET wid   == t.kids[idx + 1].wid
        tabs1 == InsertAt(t.tabs, NewTabButtonWidget(label, idx, wid), idx)
    IN  IF Len(t.kids) = 1
        THEN [t EXCEPT !.tabs = tabs1, !.StackTop = 0]
        ELSE [t EXCEPT !.tabs = tabs1,
                       !.kids = [t.kids EXCEPT ![idx + 1].invis = TRUE]]

\* InsertTabOnlyAt inserts just the tab button, after the content was added
InsertTabOnlyAt(t, label, idx) ==
    LET wid   == t.kids[idx + 1].wid
        tabs1 == InsertAt(t.tabs, NewTabButtonWidget(label, idx, wid), idx)
    IN  IF Len(t.kids) = 1
        THEN Touch([t EXCEPT !.tabs = [tabs1 EXCEPT ![idx + 1].sel = TRUE],
                             !.StackTop = 0])
        ELSE Touch([t EXCEPT !.tabs = tabs1,
                             !.kids = [t.kids EXCEPT ![idx + 1].invis = TRUE]])

\* InsertTab inserts a widget into given index position within list of tabs
InsertTab(t, wid, label, idx) ==
    LET u  == UpdateStart(t)
        t1 == SetFullReRender(u.tv)
        t2 == Touch([t1 EXCEPT !.kids = InsertAt(t1.kids, NewContent(wid), idx)])
        t3 == InsertTabOnlyAt(t2, label, idx)
    IN  UpdateEnd(t3, u.updt)

\* InsertNewTab creates the widget in the frame, then inserts the tab
InsertNewTab(t, wid, label, idx) ==
    LET u  == UpdateStart(t)
        t1 == SetFullReRender(u.tv)
        t2 == Touch([t1 EXCEPT !.kids = InsertAt(t1.kids, NewContent(wid), idx)])
        t3 == InsertTabOnlyAt(t2, label, idx)
    IN  [tv |-> UpdateEnd(t3, u.updt), widg |-> wid]

\* AddTab that reads the index only after the insert
AddTabIndexAfter(t, wid, label) ==
    LET t1 == InsertTab(t, wid, label, Len(t.kids))
    IN  [tv |-> t1, idx |-> Len(t1.kids)]

\* AddTab appends a widget as a new tab and returns its index
AddTab(t, wid, label) ==
    LET idx == Len(t.kids)
    IN  [tv |-> InsertTab(t, wid, label, idx), idx |-> idx]

\* AddNewTab appends a new widget as a new tab, returns widget and index
AddNewTab(t, wid, label) ==
    LET idx == Len(t.kids)
        r   == InsertNewTab(t, wid, label, idx)
    IN  [tv |-> r.tv, widg |-> r.widg, idx |-> idx]

\* AddNewTabAction that emits TabAdded with the tab count after the add
AddNewTabActionCountPayload(t, wid, label) ==
    LET r == AddNewTab(t, wid, label)
    IN  [tv |-> Emit(r.tv, "TabAdded", Len(r.tv.kids)),
         widg |-> r.widg, idx |-> r.idx]

\* AddNewTabAction is AddNewTab and emits the TabAdded signal
AddNewTabAction(t, wid, label) ==
    LET r == AddNewTab(t, wid, label)
    IN  [tv |-> Emit(r.tv, "TabAdded", r.idx), widg |-> r.widg, idx |-> r.idx]

\* TabAtIndex returns content widget and tab button at index, false if the
\* index is out of range; tab is the button's 0-based strip position
TabAtIndex(t, idx) ==
    LET sz == Len(t.kids)
    IN  IF idx < 0 \/ idx >= sz
        THEN [widg |-> Nil, tab |-> -1, ok |-> FALSE]
        ELSE [widg |-> t.kids[idx + 1].wid, tab |-> idx, ok |-> TRUE]

\* UnselectOtherTabs turns off all the tabs except given one
UnselectOtherTabs(t, idx) ==
    LET sz == NTabs(t)
    IN  Touch([t EXCEPT !.tabs =
            [i \in DOMAIN t.tabs |->
                IF i - 1 < sz /\ i - 1 # idx /\ t.tabs[i].sel
                THEN [t.tabs[i] EXCEPT !.sel = FALSE]
                ELSE t.tabs[i]]])

\* RenumberTabs assigns proper index numbers to each tab
RenumberTabs(t) ==
    LET sz == NTabs(t)
    IN  Touch([t EXCEPT !.tabs =
            [i \in DOMAIN t.tabs |->
                IF i - 1 < sz THEN [t.tabs[i] EXCEPT !.Data = i - 1]
                ELSE t.tabs[i]]])

\* SelectTabIndex that unselects the other tabs before validating the index
SelectTabIndexUnselectFirst(t, idx) ==
    LET r  == TabAtIndex(t, idx)
        t1 == UnselectOtherTabs(t, idx)
    IN  IF ~r.ok THEN [tv |-> t1, widg |-> Nil, ok |-> FALSE]
        ELSE IF t.StackTop = idx THEN [tv |-> t, widg |-> r.widg, ok |-> TRUE]
        ELSE [tv |-> [t1 EXCEPT !.tabs[r.tab + 1].sel = TRUE, !.StackTop = idx],
              widg |-> r.widg, ok |-> TRUE]

\* SelectTabIndex without the already-selected early return
SelectTabIndexNoEarlyReturn(t, idx) ==
    LET r == TabAtIndex(t, idx)
    IN  IF ~r.ok THEN [tv |-> t, widg |-> Nil, ok |-> FALSE]
        ELSE LET u  == UpdateStart(t)
                 t1 == UnselectOtherTabs(u.tv, idx)
                 t2 == Touch([t1 EXCEPT !.tabs[r.tab + 1].sel = TRUE,
                                        !.StackTop = idx])
             IN  [tv |-> UpdateEnd(t2, u.updt), widg |-> r.widg, ok |-> TRUE]

\* SelectTabIndex that ends its update with a true token although nested
SelectTabIndexOwnRender(t, idx) ==
    LET r == TabAtIndex(t, idx)
    IN  IF ~r.ok THEN [tv |-> t, widg |-> Nil, ok |-> FALSE]
        ELSE IF t.StackTop = idx THEN [tv |-> t, widg |-> r.widg, ok |-> TRUE]
        ELSE LET u  == UpdateStart(t)
                 t1 == UnselectOtherTabs(u.tv, idx)
                 t2 == Touch([t1 EXCEPT !.tabs[r.tab + 1].sel = TRUE,
                                        !.StackTop = idx])
             IN  [tv |-> UpdateEnd(t2, TRUE), widg |-> r.widg, ok |-> TRUE]

\* SelectTabIndex selects tab at given index, false if index is invalid
SelectTabIndex(t, idx) ==
    LET r == TabAtIndex(t, idx)
    IN  IF ~r.ok THEN [tv |-> t, widg |-> Nil, ok |-> FALSE]
        ELSE IF t.StackTop = idx THEN [tv |-> t, widg |-> r.widg, ok |-> TRUE]
        ELSE LET u  == UpdateStart(t)
                 t1 == UnselectOtherTabs(u.tv, idx)
                 t2 == Touch([t1 EXCEPT !.tabs[r.tab + 1].sel = TRUE,
                                        !.StackTop = idx])
             IN  [tv |-> UpdateEnd(t2, u.updt), widg |-> r.widg, ok |-> TRUE]

\* SelectTabIndexAction that emits TabSelected whether or not the select
\* succeeded
SelectTabIndexActionAlwaysEmit(t, idx) ==
    LET r == SelectTabIndex(t, idx)
    IN  [tv |-> Emit(r.tv, "TabSelected", idx), ok |-> r.ok]

\* SelectTabIndexAction selects tab at index and emits the selected signal
SelectTabIndexAction(t, idx) ==
    LET r == SelectTabIndex(t, idx)
    IN  IF r.ok THEN [tv |-> Emit(r.tv, "TabSelected", idx), ok |-> r.ok]
        ELSE [tv |-> r.tv, ok |-> r.ok]

\* the ActionSig handler InsertTabOnlyAt connects to a tab button: the
\* button's index tag is resolved and the tab selected
TabButtonAction(t, pos) ==
    LET tabIdx == t.tabs[pos + 1].Data
    IN  [tv |-> SelectTabIndex(t, tabIdx).tv, tabIdx |-> tabIdx]

\* TabByName returns tab with given name and its index, false if not found;
\* the frame has no child at an index past its last, and the conversion of
\* that missing child panics
TabByName(t, label) ==
    LET f == IndexByName(t.tabs, label)
    IN  IF ~f.ok THEN [widg |-> Nil, idx |-> -1, ok |-> FALSE, panic |-> FALSE]
        ELSE IF f.idx >= Len(t.kids)
        THEN [widg |-> Nil, idx |-> f.idx, ok |-> FALSE, panic |-> TRUE]
        ELSE [widg |-> t.kids[f.idx + 1].wid, idx |-> f.idx, ok |-> TRUE,
              panic |-> FALSE]

\* SelectTabByName selects tab by name, returning it, false if not found
SelectTabByName(t, label) ==
    LET r == TabByName(t, label)
    IN  IF r.panic THEN [tv |-> t, widg |-> r.widg, idx |-> r.idx,
                         ok |-> r.ok, panic |-> TRUE]
        ELSE [tv |-> IF r.ok THEN SelectTabIndex(t, r.idx).tv ELSE t,
              widg |-> r.widg, idx |-> r.idx, ok |-> r.ok, panic |-> FALSE]

\* NxtIdx that prefers the tab sliding into idx over the previous one
NxtIdxPreferNext(top, idx, sz) ==
    IF top = idx
    THEN IF idx < sz - 1 THEN idx
         ELSE IF idx > 0 THEN idx - 1 ELSE -1
    ELSE -1

\* the tab DeleteTabIndex selects after deleting idx out of sz tabs: the
\* previous one, else the one sliding into idx, when idx was the visible one
NxtIdx(top, idx, sz) ==
    IF top = idx
    THEN IF idx > 0 THEN idx - 1
         ELSE IF idx < sz - 1 THEN idx ELSE -1
    ELSE -1

\* DeleteTabIndex that hands the caller's destroy flag to both deletions
DeleteTabIndexButtonByFlag(t, idx, destroy) ==
    LET r == TabAtIndex(t, idx)
    IN  IF ~r.ok THEN [tv |-> t, widg |-> Nil, ok |-> FALSE]
        ELSE LET sz     == Len(t.kids)
                 u      == UpdateStart(t)
                 t0     == SetFullReRender(u.tv)
                 nxtidx == NxtIdx(t0.StackTop, idx, sz)
                 t1     == DeleteChildAtIndex(t0, "widg", idx, destroy)
                 t2     == DeleteChildAtIndex(t1, "tab", idx, destroy)
                 t3     == RenumberTabs(t2)
                 t4     == IF nxtidx >= 0
                           THEN SelectTabIndex(t3, nxtidx).tv ELSE t3
             IN  [tv |-> UpdateEnd(t4, u.updt),
                  widg |-> IF destroy THEN Nil ELSE r.widg, ok |-> TRUE]

\* DeleteTabIndex deletes tab at given index, returns the widget if
\* destroy is false, and success
DeleteTabIndex(t, idx, destroy) ==
    LET r == TabAtIndex(t, idx)
    IN  IF ~r.ok THEN [tv |-> t, widg |-> Nil, ok |-> FALSE]
        ELSE LET sz     == Len(t.kids)
                 u      == UpdateStart(t)
                 t0     == SetFullReRender(u.tv)
                 nxtidx == NxtIdx(t0.StackTop, idx, sz)
                 t1     == DeleteChildAtIndex(t0, "widg", idx, destroy)
                 t2     == DeleteChildAtIndex(t1, "tab", idx, TRUE)
                 t3     == RenumberTabs(t2)
                 t4     == IF nxtidx >= 0
                           THEN SelectTabIndex(t3, nxtidx).tv ELSE t3
             IN  [tv |-> UpdateEnd(t4, u.updt),
                  widg |-> IF destroy THEN Nil ELSE r.widg, ok |-> TRUE]

\* DeleteTabIndexAction that emits TabDeleted with the index now visible
DeleteTabIndexActionTopPayload(t, idx) ==
    LET r == DeleteTabIndex(t, idx, TRUE)
    IN  IF r.ok THEN [tv |-> Emit(r.tv, "TabDeleted", r.tv.StackTop), ok |-> r.ok]
        ELSE [tv |-> r.tv, ok |-> r.ok]

\* DeleteTabIndexAction deletes tab at index with destroy and emits the
\* TabDeleted signal
DeleteTabIndexAction(t, idx) ==
    LET r == DeleteTabIndex(t, idx, TRUE)
    IN  IF r.ok THEN [tv |-> Emit(r.tv, "TabDeleted", idx), ok |-> r.ok]
        ELSE [tv |-> r.tv, ok |-> r.ok]

\* the ActionSig handler ConfigParts connects to a tab button's close
\* control: the button's index tag is resolved and, if the button has a
\* TabView ancestor (tvv != nil), DeleteTabIndexAction is called on it
CloseAction(t, tabIdx, hasTabView) ==
    IF hasTabView
    THEN DeleteTabIndexAction(t, tabIdx)
    ELSE [tv |-> t, ok |-> FALSE]

\* ConfigNewTabButton that tests the strip against the tab count alone
ConfigNewTabButtonNoPlusOne(t) ==
    LET sz  == NTabs(t)
        ntb == Len(t.tabs)
    IN  IF t.NewTabButton
        THEN IF ntb = sz + 2 THEN [tv |-> t, ok |-> FALSE]
             ELSE [tv |-> [t EXCEPT !.tabs = InsertAt(t.tabs, NewTabAction, ntb)],
                   ok |-> TRUE]
        ELSE IF ntb = sz THEN [tv |-> t, ok |-> FALSE]
             ELSE [tv |-> [t EXCEPT !.tabs = DeleteAt(t.tabs, ntb - 1)],
                   ok |-> TRUE]

\* ConfigNewTabButton configures the new tab + button at end of list of tabs
ConfigNewTabButton(t) ==
    LET sz  == NTabs(t)
        ntb == Len(t.tabs)
    IN  IF t.NewTabButton
        THEN IF ntb = sz + 1 THEN [tv |-> t, ok |-> FALSE]
             ELSE [tv |-> Touch([t EXCEPT !.tabs =
                                    InsertAt(t.tabs, NewTabAction, ntb)]),
                   ok |-> TRUE]
        ELSE IF ntb = sz THEN [tv |-> t, ok |-> FALSE]
             ELSE [tv |-> DeleteChildAtIndex(t, "tab", ntb - 1, TRUE),
                   ok |-> TRUE]

\* ------------------------------------------------------------ state
\* the record of a call: method, index argument (or index result), widget
\* argument or result, success, whether the index was the visible-content
\* index when the call began, the name and destroy arguments, and the
\* effects the call left in its receiver t
CallFull(op, idx, widg, ok, nm, destroy, panic, t) ==
    [op |-> op, idx |-> idx, widg |-> widg, ok |-> ok, vis |-> (idx = StackTop),
     nm |-> nm, destroy |-> destroy, panic |-> panic,
     sigs |-> t.sigs, depth |-> t.depth, renders |-> t.renders,
     full |-> t.full, unbr |-> t.unbr, destroyed |-> t.destroyed]

\* the record of a call that takes no name and no destroy flag
Call(op, idx, widg, ok, t) == CallFull(op, idx, widg, ok, "", FALSE, FALSE, t)

\* a widget identity not in the content stack
FreshIds == {w \in WidgetIds : \A i \in DOMAIN kids : kids[i].wid # w}

FreshId == CHOOSE w \in FreshIds : \A v \in FreshIds : w <= v

\* the call returns into a running program and leaves the container as t
Set(t) ==
    /\ ~last.panic
    /\ tabs' = t.tabs
    /\ kids' = t.kids
    /\ StackTop' = t.StackTop
    /\ NewTabButton' = t.NewTabButton

\* InitTabView: empty "tabs" and "frame" children, then ConfigNewTabButton
\* under the flag the owner set; no content is on top of the empty stack
Init ==
    /\ NewTabButton \in BOOLEAN
    /\ tabs = IF NewTabButton THEN <<NewTabAction>> ELSE <<>>
    /\ kids = <<>>
    /\ StackTop = -1
    /\ last = [op |-> "InitTabView", idx |-> -1, widg |-> Nil, ok |-> TRUE,
               vis |-> FALSE, nm |-> "", destroy |-> FALSE, panic |-> FALSE,
               sigs |-> <<>>, depth |-> 0, renders |-> 1, full |-> "unset",
               unbr |-> FALSE, destroyed |-> {}]

\* ------------------------------------------------------------ actions
InsertTabOp ==
    /\ Len(kids) < MaxTabs
    /\ \E idx \in 0..Len(kids), label \in Labels :
        LET t == InsertTab(TV, FreshId, label, idx)
        IN  /\ Set(t)
            /\ last' = CallFull("InsertTab", idx, FreshId, TRUE, label,
                                FALSE, FALSE, t)

\* AddTab with a label drawn from L
AddTabWith(L) ==
    /\ Len(kids) < MaxTabs
    /\ \E label \in L :
        LET r == AddTab(TV, FreshId, label)
        IN  /\ Set(r.tv)
            /\ last' = CallFull("AddTab", r.idx, FreshId, TRUE, label,
                                FALSE, FALSE, r.tv)

AddTabOp == AddTabWith(Labels)

AddTabLabelOp == AddTabWith(AddLabels)

InsertNewTabOp ==
    /\ Len(kids) < MaxTabs
    /\ \E idx \in 0..Len(kids), label \in Labels :
        LET r == InsertNewTab(TV, FreshId, label, idx)
        IN  /\ Set(r.tv)
            /\ last' = CallFull("InsertNewTab", idx, r.widg, TRUE, label,
                                FALSE, FALSE, r.tv)

AddNewTabOp ==
    /\ Len(kids) < MaxTabs
    /\ \E label \in Labels :
        LET r == AddNewTab(TV, FreshId, label)
        IN  /\ Set(r.tv)
            /\ last' = CallFull("AddNewTab", r.idx, r.widg, TRUE, label,
                                FALSE, FALSE, r.tv)

AddNewTabActionOp ==
    /\ Len(kids) < MaxTabs
    /\ \E label \in Labels :
        LET r == AddNewTabAction(TV, FreshId, label)
        IN  /\ Set(r.tv)
            /\ last' = CallFull("AddNewTabAction", r.idx, r.widg, TRUE, label,
                                FALSE, FALSE, r.tv)

TabAtIndexOp ==
    \E idx \in IdxArgs :
        LET r == TabAtIndex(TV, idx)
        IN  /\ Set(TV)
            /\ last' = Call("TabAtIndex", idx, r.widg, r.ok, TV)

SelectTabIndexOp ==
    \E idx \in IdxArgs :
        LET r == SelectTabIndex(TV, idx)
        IN  /\ Set(r.tv)
            /\ last' = Call("SelectTabIndex", idx, r.widg, r.ok, r.tv)

SelectTabIndexActionOp ==
    \E idx \in IdxArgs :
        LET r == SelectTabIndexAction(TV, idx)
        IN  /\ Set(r.tv)
            /\ last' = Call("SelectTabIndexAction", idx, Nil, r.ok, r.tv)

\* a click on the main body of the tab button at strip position pos
TabButtonActionOp ==
    \E pos \in 0..(Len(kids) - 1) :
        LET r == TabButtonAction(TV, pos)
        IN  /\ Set(r.tv)
            /\ last' = Call("TabButtonAction", r.tabIdx, Nil, TRUE, r.tv)

TabByNameOp ==
    \E label \in LookupNames :
        LET r == TabByName(TV, label)
        IN  /\ Set(TV)
            /\ last' = CallFull("TabByName", r.idx, r.widg, r.ok, label,
                                FALSE, r.panic, TV)

SelectTabByNameOp ==
    \E label \in LookupNames :
        LET r == SelectTabByName(TV, label)
        IN  /\ Set(r.tv)
            /\ last' = CallFull("SelectTabByName", r.idx, r.widg, r.ok, label,
                                FALSE, r.panic, r.tv)

DeleteTabIndexOp ==
    \E idx \in IdxArgs, destroy \in BOOLEAN :
        LET r == DeleteTabIndex(TV, idx, destroy)
        IN  /\ Set(r.tv)
            /\ last' = CallFull("DeleteTabIndex", idx, r.widg, r.ok, "",
                                destroy, FALSE, r.tv)

DeleteTabIndexActionOp ==
    \E idx \in IdxArgs :
        LET r == DeleteTabIndexAction(TV, idx)
        IN  /\ Set(r.tv)
            /\ last' = CallFull("DeleteTabIndexAction", idx, Nil, r.ok, "",
                                TRUE, FALSE, r.tv)

\* the close control of the tab button at strip position pos is activated
CloseActionOp ==
    \E pos \in 0..(Len(kids) - 1) :
        LET r == CloseAction(TV, tabs[pos + 1].Data, TRUE)
        IN  /\ Set(r.tv)
            /\ last' = CallFull("CloseAction", pos, tabs[pos + 1].wid, r.ok,
                                "", TRUE, FALSE, r.tv)

\* the close control of a tab button that is in no TabView is activated
DetachedCloseActionOp ==
    \E data \in IdxArgs :
        LET r == CloseAction(TV, data, FALSE)
        IN  /\ Set(r.tv)
            /\ last' = Call("DetachedCloseAction", data, Nil, r.ok, r.tv)

\* the owner writes the NewTabButton field and reconfigures
ConfigNewTabButtonOp ==
    \E flag \in BOOLEAN :
        LET r == ConfigNewTabButton([TV EXCEPT !.NewTabButton = flag])
        IN  /\ Set(r.tv)
            /\ last' = Call("ConfigNewTabButton", -1, Nil, r.ok, r.tv)

\* the methods that take and return indices and widgets
Next ==
    \/ InsertTabOp
    \/ AddTabOp
    \/ InsertNewTabOp
    \/ AddNewTabOp
    \/ TabAtIndexOp
    \/ SelectTabIndexOp
    \/ DeleteTabIndexOp
    \/ ConfigNewTabButtonOp

Spec == Init /\ [][Next]_vars

\* the entry points that emit TabViewSig signals and the tab button's click
\* handler, over the containers that inserts at any index, deletes and
\* selects build
NextSig ==
    \/ InsertTabOp
    \/ AddNewTabActionOp
    \/ SelectTabIndexOp
    \/ SelectTabIndexActionOp
    \/ TabButtonActionOp
    \/ DeleteTabIndexOp
    \/ DeleteTabIndexActionOp
    \/ ConfigNewTabButtonOp

SpecSig == Init /\ [][NextSig]_vars

\* the lookups by name, over the containers that appends under two labels,
\* deletes, selects by name and new-tab-button reconfigurations build
NextName ==
    \/ AddTabLabelOp
    \/ TabByNameOp
    \/ SelectTabByNameOp
    \/ DeleteTabIndexOp
    \/ ConfigNewTabButtonOp

SpecName == Init /\ [][NextName]_vars

\* the close control of the tab buttons, over the containers that inserts at
\* any index and deletes build
NextClose ==
    \/ InsertTabOp
    \/ DeleteTabIndexOp
    \/ CloseActionOp
    \/ DetachedCloseActionOp

SpecClose == Init /\ [][NextClose]_vars

\* ------------------------------------------------------------ properties
\* 0-based strip positions of the buttons in selected state
SelectedPos == {i \in 0..(Len(tabs) - 1) : tabs[i + 1].sel}

\* the content widgets whose buttons are in selected state
SelectedWids == {tabs[i].wid : i \in {j \in DOMAIN tabs : tabs[j].sel}}

\* 0-based strip positions holding a TabButton
TabButtonPos == {i \in 0..(Len(tabs) - 1) : tabs[i + 1].typ = "TabButton"}

InsertOps == {"InsertTab", "AddTab", "InsertNewTab", "AddNewTab"}

\* the container part of the state (everything but the call record)
tvvars == <<tabs, kids, StackTop, NewTabButton>>

\* C1: after every operation every tab button at strip position i carries
\* index tag (Data) equal to i.
C1_IndexTagEqualsPosition ==
    \A i \in TabButtonPos : tabs[i + 1].Data = i

\* C2: StackTop is -1 or a valid index below the tab count, and in the latter
\* case exactly one button is selected, the one at position StackTop.
C2_VisibleIndexValid ==
    \/ StackTop = -1
    \/ /\ 0 <= StackTop
       /\ StackTop < Len(kids)
       /\ SelectedPos = {StackTop}

\* C3: the strip holds as many tab buttons as the stack holds content widgets,
\* and the button at position i is the one created with the content at i.
C3_StripStackAligned ==
    /\ Cardinality(TabButtonPos) = Len(kids)
    /\ \A i \in 1..Len(kids) :
        /\ tabs[i].typ = "TabButton"
        /\ tabs[i].wid = kids[i].wid

\* three tabs, not in creation order, reached by an insert in the middle
\* followed by a delete
C3_Witness ==
    /\ last.op = "DeleteTabIndex"
    /\ last.ok
    /\ Len(kids) = 2
    /\ kids[1].wid > kids[2].wid
    /\ Len(tabs) = 3

\* C4: SelectTabIndex(i) with 0 <= i < tabCount returns success and leaves
\* exactly one selected button, at position i, with StackTop = i.
C4_SelectSelectsExactlyOne ==
    (last.op = "SelectTabIndex" /\ 0 <= last.idx /\ last.idx < Len(kids)) =>
        /\ last.ok
        /\ SelectedPos = {last.idx}
        /\ StackTop = last.idx

\* C5: DeleteTabIndex(idx) of the visible tab with idx > 0 leaves the tab at
\* idx-1 visible and its button the only selected one.
C5_DeleteSelectsPrevious ==
    (last.op = "DeleteTabIndex" /\ last.ok /\ last.vis /\ last.idx > 0) =>
        /\ StackTop = last.idx - 1
        /\ SelectedPos = {last.idx - 1}

\* [A,B,C] with B visible, delete 1: A is selected and two tabs remain
C5_Witness ==
    /\ last.op = "DeleteTabIndex"
    /\ last.ok
    /\ last.vis
    /\ last.idx = 1
    /\ Len(kids) = 2
    /\ StackTop = 0
    /\ tabs[1].sel

\* C6: DeleteTabIndex(0) of the visible tab with another tab remaining leaves
\* StackTop = 0 and the button now at position 0 the only selected one.
C6_DeleteFirstSelectsNext ==
    (last.op = "DeleteTabIndex" /\ last.ok /\ last.vis /\ last.idx = 0
        /\ Len(kids) >= 1) =>
        /\ StackTop = 0
        /\ SelectedPos = {0}

\* C7: deleting the last remaining tab empties the container, and whenever
\* the container has zero tabs CurTab fails with index -1 and no button is
\* in selected state.
C7_EmptyHasNoSelection ==
    /\ (Len(kids) = 0 =>
            /\ CurTab(TV) = [widg |-> Nil, idx |-> -1, ok |-> FALSE]
            /\ SelectedPos = {})
    /\ [][/\ (last'.op = "DeleteTabIndex" /\ last'.ok /\ Len(kids) = 1) =>
                /\ Len(kids') = 0
                /\ TabButtonPos' = {}
          /\ Len(kids') = 0 =>
                /\ CurTab(TV)' = [widg |-> Nil, idx |-> -1, ok |-> FALSE]
                /\ SelectedPos' = {}]_vars

\* the single visible tab was deleted: the frame is empty, StackTop kept 0
C7_Witness ==
    /\ last.op = "DeleteTabIndex"
    /\ last.ok
    /\ last.vis
    /\ Len(kids) = 0
    /\ StackTop = 0

\* C8: an insert into a container that has a tab changes neither the value
\* of StackTop nor which button is selected, and the new button is not
\* selected.
C8_InsertKeepsSelection ==
    [][(last'.op \in InsertOps /\ Len(kids) >= 1 /\ Len(kids') = Len(kids) + 1) =>
            /\ StackTop' = StackTop
            /\ SelectedWids' = SelectedWids
            /\ ~tabs'[last'.idx + 1].sel]_vars

\* a third tab inserted at position 0, before the selected button
C8_Witness ==
    /\ last.op = "InsertTab"
    /\ last.idx = 0
    /\ Len(kids) = 3
    /\ SelectedPos = {2}

\* C9: an insert into a container with zero tabs makes the new tab the
\* selected and visible one (StackTop = 0, its button the only selected
\* one); an insert into a non-empty container marks the new content
\* invisible.
C9_InsertIntoEmptySelects ==
    last.op \in InsertOps =>
        IF Len(kids) = 1
        THEN /\ StackTop = 0
             /\ SelectedPos = {0}
             /\ tabs[1].wid = kids[1].wid
             /\ ~kids[1].invis
        ELSE kids[last.idx + 1].invis

\* InsertNewTab into a container with zero tabs: the new tab is selected
C9_Witness ==
    /\ last.op = "InsertNewTab"
    /\ Len(kids) = 1
    /\ StackTop = 0
    /\ tabs[1].sel

\* C10: SelectTabIndex, TabAtIndex and DeleteTabIndex with idx < 0 or
\* idx >= tabCount return false and leave strip, stack, index tags, selected
\* flags and StackTop unchanged.
C10_OutOfRangeNoChange ==
    [][(/\ last'.op \in {"SelectTabIndex", "TabAtIndex", "DeleteTabIndex"}
        /\ (last'.idx < 0 \/ last'.idx >= Len(kids))) =>
            /\ ~last'.ok
            /\ UNCHANGED tvvars]_vars

\* a failed DeleteTabIndex one past the last of two tabs, one selected
C10_Witness ==
    /\ last.op = "DeleteTabIndex"
    /\ ~last.ok
    /\ last.idx = Len(kids)
    /\ Len(kids) = 2
    /\ SelectedPos # {}

\* C11: a click on the main body of a tab button selects the tab of the
\* button's index tag and emits exactly one TabSelected signal carrying
\* that index.
C11_ClickEmitsTabSelected ==
    last.op = "TabButtonAction" =>
        /\ StackTop = last.idx
        /\ last.sigs = <<[sig |-> "TabSelected", data |-> last.idx]>>

\* C12: SelectTabIndexAction(idx) emits exactly one TabSelected signal with
\* payload idx when idx is a valid index, also when idx is already the
\* selected tab; out of range it emits nothing and changes no state.
C12_SelectActionSignal ==
    [][last'.op = "SelectTabIndexAction" =>
            IF 0 <= last'.idx /\ last'.idx < Len(kids)
            THEN /\ last'.ok
                 /\ last'.sigs = <<[sig |-> "TabSelected", data |-> last'.idx]>>
                 /\ StackTop' = last'.idx
            ELSE /\ ~last'.ok
                 /\ last'.sigs = <<>>
                 /\ UNCHANGED tvvars]_vars

\* SelectTabIndexAction on the tab that is already the visible one
C12_Witness ==
    /\ last.op = "SelectTabIndexAction"
    /\ last.ok
    /\ last.vis
    /\ last.renders = 0
    /\ Len(last.sigs) = 1
    /\ Len(kids) = 3

\* C13: DeleteTabIndexAction(idx) on a valid index removes that tab,
\* destroying its content, and emits exactly one TabDeleted signal whose
\* payload is idx; out of range it emits nothing and deletes nothing.
C13_DeleteActionSignal ==
    [][last'.op = "DeleteTabIndexAction" =>
            IF 0 <= last'.idx /\ last'.idx < Len(kids)
            THEN /\ last'.ok
                 /\ Len(kids') = Len(kids) - 1
                 /\ \A j \in DOMAIN kids' : kids'[j].wid # kids[last'.idx + 1].wid
                 /\ last'.destroyed = {"widg", "tab"}
                 /\ last'.sigs = <<[sig |-> "TabDeleted", data |-> last'.idx]>>
            ELSE /\ ~last'.ok
                 /\ last'.sigs = <<>>
                 /\ last'.destroyed = {}
                 /\ UNCHANGED tvvars]_vars

\* the visible tab 2 of three closed: tab 1 is reselected inside the delete
\* and TabDeleted is the only signal
C13_Witness ==
    /\ last.op = "DeleteTabIndexAction"
    /\ last.ok
    /\ last.vis
    /\ last.idx = 2
    /\ Len(kids) = 2
    /\ StackTop = 1
    /\ last.sigs = <<[sig |-> "TabDeleted", data |-> 2]>>

\* C14: AddNewTabAction appends the new tab at the end, returns the tab
\* count before the call as its index, and emits exactly one TabAdded signal
\* whose payload is that index.
C14_AddNewTabActionSignal ==
    [][last'.op = "AddNewTabAction" =>
            /\ Len(kids') = Len(kids) + 1
            /\ last'.idx = Len(kids)
            /\ kids'[Len(kids')].wid = last'.widg
            /\ tabs'[Len(kids')].wid = last'.widg
            /\ \A j \in DOMAIN kids : kids'[j].wid = kids[j].wid
            /\ last'.sigs = <<[sig |-> "TabAdded", data |-> last'.idx]>>]_vars

\* a third tab added through the action entry point
C14_Witness ==
    /\ last.op = "AddNewTabAction"
    /\ last.idx = 2
    /\ Len(kids) = 3
    /\ last.sigs = <<[sig |-> "TabAdded", data |-> 2]>>

\* strip positions (1-based) of the buttons named nm
Named(nm) == {i \in DOMAIN tabs : tabs[i].Nm = nm}

\* C15 as stated: AddTab(w, L) immediately followed by TabByName(L) returns
\* success with widget w and the index AddTab returned.
C15_AddThenFindRoundTrip ==
    [][(last.op = "AddTab" /\ last'.op = "TabByName" /\ last'.nm = last.nm) =>
            /\ last'.ok
            /\ last'.widg = last.widg
            /\ last'.idx = last.idx]_vars

\* C15 amended: when no button of the strip was named L before the call,
\* AddTab(w, L) immediately followed by TabByName(L) returns success with
\* widget w and the index AddTab returned.
C15_AddThenFindUniqueLabel ==
    [][(/\ last.op = "AddTab"
        /\ last'.op = "TabByName"
        /\ last'.nm = last.nm
        /\ Cardinality(Named(last.nm)) = 1) =>
            /\ last'.ok
            /\ last'.widg = last.widg
            /\ last'.idx = last.idx]_vars

\* TabByName("b") finds the only tab labelled b, the last of three tabs
C15_Witness ==
    /\ last.op = "TabByName"
    /\ last.nm = "b"
    /\ last.ok
    /\ last.idx = 2
    /\ Len(kids) = 3
    /\ Cardinality(Named("b")) = 1
    /\ last.widg = kids[3].wid

\* C16: TabByName and SelectTabByName with a label that no tab carries
\* return failure (index -1, false), also when the trailing new-tab button
\* is in the strip; the container is as before (the call returned).
C16_NameNotFoundFails ==
    (/\ last.op \in {"TabByName", "SelectTabByName"}
     /\ \A i \in TabButtonPos : tabs[i + 1].Nm # last.nm) =>
        /\ ~last.ok
        /\ last.idx = -1
        /\ ~last.panic

\* C17: after a ConfigNewTabButton call the strip holds tabCount buttons
\* plus one if the flag is set, and a second call under the same flag
\* returns false and changes nothing.
C17_ConfigIdempotent ==
    last.op = "ConfigNewTabButton" =>
        /\ Len(tabs) = Len(kids) + (IF NewTabButton THEN 1 ELSE 0)
        /\ ~ConfigNewTabButton(TV).ok
        /\ ConfigNewTabButton(TV).tv = TV

\* the new-tab button was added behind two tabs
C17_Witness ==
    /\ last.op = "ConfigNewTabButton"
    /\ last.ok
    /\ NewTabButton
    /\ Len(kids) = 2
    /\ Len(tabs) = 3
    /\ tabs[3].typ = "Action"

\* C18: a successful DeleteTabIndex(idx, destroy) removes exactly the content
\* and the button at idx, the others keeping their order; the button is
\* always destroyed; the content is destroyed and nil returned when destroy
\* is set, and otherwise returned undestroyed.
C18_DeleteRemovesExactlyIdx ==
    [][(last'.op = "DeleteTabIndex" /\ last'.ok) =>
            LET i == last'.idx
            IN  /\ Len(kids') = Len(kids) - 1
                /\ Len(tabs') = Len(tabs) - 1
                /\ \A j \in DOMAIN kids' :
                    kids'[j] = kids[IF j <= i THEN j ELSE j + 1]
                /\ \A j \in DOMAIN tabs' :
                    LET b == tabs[IF j <= i THEN j ELSE j + 1]
                    IN  tabs'[j].wid = b.wid /\ tabs'[j].typ = b.typ
                             /\ tabs'[j].Nm = b.Nm
                /\ "tab" \in last'.destroyed
                /\ IF last'.destroy
                   THEN last'.widg = Nil /\ "widg" \in last'.destroyed
                   ELSE last'.widg = kids[i + 1].wid
                            /\ "widg" \notin last'.destroyed]_vars

\* the middle one of three tabs deleted without destroy: its content is
\* handed back
C18_Witness ==
    /\ last.op = "DeleteTabIndex"
    /\ last.ok
    /\ ~last.destroy
    /\ last.idx = 1
    /\ last.widg # Nil
    /\ last.destroyed = {"tab"}
    /\ Len(kids) = 2

\* C19: SelectTabIndex(i) with i the visible-content index returns the
\* content at i with success and changes nothing, and a second
\* SelectTabIndex(i) after any successful one changes nothing.
C19_SelectAgainNoOp ==
    [][last'.op = "SelectTabIndex" =>
            /\ (0 <= last'.idx /\ last'.idx < Len(kids) /\ last'.idx = StackTop) =>
                    /\ last'.ok
                    /\ last'.widg = kids[last'.idx + 1].wid
                    /\ UNCHANGED tvvars
            /\ last'.ok =>
                    SelectTabIndex(TV', last'.idx) =
                        [tv |-> TV', widg |-> last'.widg, ok |-> TRUE]]_vars

\* SelectTabIndex on the visible index while no button is selected
C19_Witness ==
    /\ last.op = "SelectTabIndex"
    /\ last.ok
    /\ last.vis
    /\ SelectedPos = {}
    /\ last.renders = 0

\* C20: InsertTab, InsertNewTab (and their Add wrappers), SelectTabIndex and
\* DeleteTabIndex change strip, stack, index tags and StackTop only inside
\* their update bracket, close every bracket they open, request one
\* re-render when they change something (the nested SelectTabIndex of a
\* delete requests none of its own) and none otherwise, and insert and
\* delete set the full-re-render flag inside the bracket.
C20_UpdateBracket ==
    last.op \in InsertOps \cup {"SelectTabIndex", "DeleteTabIndex"} =>
        /\ ~last.unbr
        /\ last.depth = 0
        /\ IF last.op \in InsertOps \/ (last.op = "DeleteTabIndex" /\ last.ok)
           THEN last.renders = 1 /\ last.full = "inside"
           ELSE IF last.op = "SelectTabIndex" /\ last.ok /\ ~last.vis
           THEN last.renders = 1 /\ last.full = "unset"
           ELSE last.renders = 0 /\ last.full = "unset"

\* the visible tab 1 deleted: tab 0 was reselected by the nested
\* SelectTabIndex and one re-render was requested
C20_Witness ==
    /\ last.op = "DeleteTabIndex"
    /\ last.ok
    /\ last.vis
    /\ last.idx = 1
    /\ StackTop = 0
    /\ SelectedPos = {0}
    /\ last.renders = 1

\* C21: an insert at any valid index, or a successful delete of an index
\* other than the visible one, leaves the content widget that was visible
\* before still the visible one: StackTop points at its new position and
\* its button is the only selected one.
C21_VisibleContentKept ==
    [][(/\ 0 <= StackTop
        /\ StackTop < Len(kids)
        /\ \/ last'.op \in InsertOps
           \/ last'.op = "DeleteTabIndex" /\ last'.ok /\ last'.idx # StackTop) =>
            /\ 0 <= StackTop'
            /\ StackTop' < Len(kids')
            /\ kids'[StackTop' + 1].wid = kids[StackTop + 1].wid
            /\ SelectedWids' = {kids[StackTop + 1].wid}]_vars

\* C22: activating the close control of the tab button at position p removes
\* exactly that button and the content at position p and emits TabDeleted
\* with payload p; for a button with no TabView ancestor the activation
\* changes nothing and emits nothing.
C22_CloseRemovesItsTab ==
    [][/\ last'.op = "CloseAction" =>
            LET p == last'.idx
            IN  /\ Len(kids') = Len(kids) - 1
                /\ Len(tabs') = Len(tabs) - 1
                /\ \A j \in DOMAIN kids' :
                    kids'[j].wid = kids[IF j <= p THEN j ELSE j + 1].wid
                /\ \A j \in DOMAIN tabs' :
                    tabs'[j].wid = tabs[IF j <= p THEN j ELSE j + 1].wid
                /\ last'.sigs = <<[sig |-> "TabDeleted", data |-> p]>>
       /\ last'.op = "DetachedCloseAction" =>
            /\ UNCHANGED tvvars
            /\ last'.sigs = <<>>]_vars

====
